---- MODULE Spec2Model ----
(***************************************************************************)
(* Model of netlify/functions/rsvp.js: the RSVP function of the wedding    *)
(* invitation site.  The file holds three revisions of the same handler    *)
(* (lines 1-176, 178-382, 384-573).  The variable rev says which revision  *)
(* is deployed; it is chosen once and never changes.  The blob store       *)
(* (@netlify/blobs) is the only shared state: one JSON document under KEY, *)
(* read with its etag and written conditionally.                           *)
(*                                                                         *)
(* Strings are sequences of one-character strings, JSON values are tagged  *)
(* records (JNull, JStr, JNum).                                            *)
(***************************************************************************)
EXTENDS Integers, Sequences, FiniteSets, TLC

\* ------------------------------------------------------------------ bounds
\* number of POST requests that pass validation (one fresh id each)
MaxRequests == 3
\* the same, in the validation specification
MaxRequestsV == 3
\* requests beyond MAX_RETRIES in the exhaustion specification
MaxExtra == 1

\* Two invocations of the handler run at a time; each serves request after
\* request.
Procs == {1, 2}
Revs == {1, 2, 3}

\* ------------------------------------------------------- program constants
MAX_RETRIES_R1 == 6
MAX_RETRIES_R2 == 10
MAX_RETRIES_R3 == 10
MAX_RETRIES(r) == IF r = 1 THEN MAX_RETRIES_R1
                  ELSE IF r = 2 THEN MAX_RETRIES_R2 ELSE MAX_RETRIES_R3

MaxNome == 80
MaxContatto == 120
MaxPartecipa == 10
MaxNominativi == 2000
SleepBase == 120

\* ------------------------------------------------------------ JSON values
JNull == [t |-> "null"]
JStr(s) == [t |-> "str", s |-> s]
JNum(n) == [t |-> "num", n |-> n]

Digits == <<"0", "1", "2", "3", "4", "5", "6", "7", "8", "9">>
WhiteSpace == {" ", "\n"}

IsDigit(c) == \E i \in 1..10 : Digits[i] = c
DigitVal(c) == (CHOOSE i \in 1..10 : Digits[i] = c) - 1

RECURSIVE NatToChars(_)
NatToChars(n) == IF n < 10 THEN <<Digits[n + 1]>>
                 ELSE NatToChars(n \div 10) \o <<Digits[(n % 10) + 1]>>

\* String(v ?? "")
ToStr(v) == IF v.t = "null" THEN <<>>
            ELSE IF v.t = "str" THEN v.s
            ELSE IF v.n < 0 THEN <<"-">> \o NatToChars(0 - v.n)
            ELSE NatToChars(v.n)

RECURSIVE TrimStart(_)
TrimStart(s) == IF s # <<>> /\ Head(s) \in WhiteSpace THEN TrimStart(Tail(s)) ELSE s

RECURSIVE TrimEnd(_)
TrimEnd(s) == IF s # <<>> /\ s[Len(s)] \in WhiteSpace
              THEN TrimEnd(SubSeq(s, 1, Len(s) - 1)) ELSE s

Trim(s) == TrimEnd(TrimStart(s))

sanitizeString(v, max) ==
    LET s == Trim(ToStr(v))
    IN  IF Len(s) > max THEN SubSeq(s, 1, max) ELSE s

\* the leading run of decimal digits of s, as a number; acc is the value so far
RECURSIVE DigitRun(_, _)
DigitRun(s, acc) == IF s # <<>> /\ IsDigit(Head(s))
                    THEN DigitRun(Tail(s), acc * 10 + DigitVal(Head(s)))
                    ELSE acc

\* parseInt(s, 10): NaN is JNull
parseInt(s) ==
    LET t == TrimStart(s)
        neg == t # <<>> /\ Head(t) = "-"
        u == IF t # <<>> /\ Head(t) \in {"-", "+"} THEN Tail(t) ELSE t
    IN  IF u = <<>> \/ ~IsDigit(Head(u)) THEN JNull
        ELSE JNum(IF neg THEN 0 - DigitRun(u, 0) ELSE DigitRun(u, 0))

toInt(v) == parseInt(ToStr(v))

\* JavaScript truthiness of a toInt result: !n is Falsy(n)
Falsy(n) == n.t = "null" \/ n.n = 0

Si == <<"S", "ì">>
No == <<"N", "o">>

\* ----------------------------------------------------------- request data
S(str) == JStr(str)

\* a POST body is "bad" (req.json() throws) or the parsed object; a field
\* the client left out is JNull.  messaggio and the user-agent header carry
\* no rule and are left out of the model.
MkBody(nome, contatto, partecipa, numPersone, nominativi) ==
    [json |-> TRUE, nome |-> nome, cognome |-> S(<<"R">>), contatto |-> contatto,
     partecipa |-> partecipa, numPersone |-> numPersone, nominativi |-> nominativi]

BadJson == [json |-> FALSE]

BodyYes2    == MkBody(S(<<"A">>), S(<<"m">>), S(<<" ", "S", "ì">>), JNum(2), S(<<"A", "\n", "B">>))
BodyYes3    == MkBody(S(<<"B">>), S(<<"m">>), S(Si), S(<<"3", " ">>), S(<<"C">>))
BodyNo3     == MkBody(S(<<"A">>), S(<<"m">>), S(No), S(<<"3">>), S(<<"A">>))
BodyNoPlain == MkBody(S(<<"A">>), S(<<"m">>), S(No), JNull, JNull)
BodyYes0    == MkBody(S(<<"A">>), S(<<"m">>), S(Si), JNum(0), S(<<"A">>))
BodyYesNeg  == MkBody(S(<<"A">>), S(<<"m">>), S(Si), S(<<"-", "2">>), S(<<"A">>))
BodyYesAnon == MkBody(S(<<"A">>), S(<<"m">>), S(Si), S(<<"2", "x">>), S(<<" ">>))
BodyMaybe   == MkBody(S(<<"A">>), S(<<"m">>), S(<<"n", "o">>), JNum(1), S(<<"A">>))
BodyNoName  == MkBody(JNull, S(<<"m">>), S(Si), JNum(1), S(<<"A">>))
BodyNoMail  == MkBody(S(<<"A">>), S(<<" ">>), S(No), JNum(0), JNull)

\* the bodies of the concurrency specification: one that every revision
\* stores, two that every revision rejects
BodiesCore == {BodyYes2, BodyMaybe, BadJson}
\* the bodies of the validation specification
BodiesAll == {BodyYes2, BodyYes3, BodyNo3, BodyNoPlain, BodyYes0, BodyYesNeg, BodyYesAnon,
              BodyMaybe, BodyNoName, BodyNoMail, BadJson}

Reply(status, ok, id, error) == [status |-> status, ok |-> ok, id |-> id, error |-> error]
NoReply == Reply(0, FALSE, 0, "")

\* The fields sanitized at the top of the POST branch.
Fields(b) ==
    [nome |-> sanitizeString(b.nome, MaxNome),
     cognome |-> sanitizeString(b.cognome, MaxNome),
     contatto |-> sanitizeString(b.contatto, MaxContatto),
     partecipa |-> sanitizeString(b.partecipa, MaxPartecipa),
     numPersone |-> toInt(b.numPersone),
     nominativi |-> sanitizeString(b.nominativi, MaxNominativi)]

\* The error with which the POST branch of revision r turns the body down,
\* "" when it passes.
ValidationError(r, b) ==
    IF ~b.json THEN "Invalid JSON body"
    ELSE LET f == Fields(b)
             missing == f.nome = <<>> \/ f.cognome = <<>> \/ f.contatto = <<>>
                        \/ f.partecipa = <<>>
         IN  IF r = 1
             THEN IF missing \/ Falsy(f.numPersone) \/ f.nominativi = <<>>
                  THEN "Missing required fields"
                  ELSE IF f.partecipa # Si /\ f.partecipa # No
                  THEN "Invalid 'partecipa' value"
                  ELSE ""
             ELSE IF missing THEN "Missing required fields"
                  ELSE IF f.partecipa # Si /\ f.partecipa # No
                  THEN "Invalid 'partecipa' value"
                  ELSE IF f.partecipa = Si /\ (Falsy(f.numPersone) \/ f.numPersone.n < 1)
                  THEN "inserisci quante persone siete"
                  ELSE IF f.partecipa = Si /\ f.nominativi = <<>>
                  THEN "inserisci i nominativi"
                  ELSE ""

\* The entry the POST branch of revision r builds from a body that passed.
MakeEntry(r, b, id, now) ==
    LET f == Fields(b)
        isNo == r # 1 /\ f.partecipa = No
        num == IF isNo THEN JNum(0) ELSE f.numPersone
    IN  [id |-> id, createdAt |-> now,
         nome |-> f.nome, cognome |-> f.cognome, contatto |-> f.contatto,
         partecipa |-> f.partecipa,
         numPersone |-> IF num.t = "null" THEN 0 ELSE num.n,
         nominativi |-> IF isNo THEN <<>> ELSE f.nominativi]

NoEntry == [id |-> 0]

\* -------------------------------------------------------------- the store
\* The blob under KEY: absent, or a JSON array with the etag of its last write.
NoBlob == [exists |-> FALSE, data |-> <<>>, etag |-> 0]

\* store.getWithMetadata(KEY, {type: "json"}): null when the blob is absent.
\* current is Array.isArray(got?.data) ? got.data : [], etag is got?.etag
\* (0 stands for undefined).
getWithMetadata(st) ==
    IF st.exists THEN [current |-> st.data, etag |-> st.etag]
    ELSE [current |-> <<>>, etag |-> 0]

\* a loop that writes without a condition
WriteOptions_Unconditional(r, etag, current) == "none"

\* a loop that always asks for create-if-absent
WriteOptions_AlwaysNew(r, etag, current) == "onlyIfNew"

\* The options the append loop of revision r passes to setJSON.
WriteOptions(r, etag, current) ==
    IF etag # 0 THEN "onlyIfMatch"
    ELSE IF r = 2 /\ Len(current) # 0 THEN "none"
    ELSE "onlyIfNew"

\* Whether the store applies a write carrying these options.
Applies(st, opt, etag) ==
    \/ opt = "none"
    \/ opt = "onlyIfNew" /\ ~st.exists
    \/ opt = "onlyIfMatch" /\ st.exists /\ st.etag = etag

\* store.setJSON(KEY, next, options): the blob afterwards.
setJSON(st, next, opt, etag) ==
    IF Applies(st, opt, etag)
    THEN [exists |-> TRUE, data |-> next, etag |-> st.etag + 1]
    ELSE st

\* next = [...current, entry]
NextValue(current, e) == Append(current, e)

\* Messages of the errors a store call can throw, as lists of words.
ErrPrecondition == <<"412", "Precondition", "Failed">>
ErrNetwork == <<"fetch", "failed">>
StoreErrors == {ErrPrecondition, ErrNetwork}

Lower(w) == IF w = "Precondition" THEN "precondition"
            ELSE IF w = "Failed" THEN "failed" ELSE w

Includes(msg, w) == \E i \in 1..Len(msg) : msg[i] = w
IncludesLower(msg, w) == \E i \in 1..Len(msg) : Lower(msg[i]) = w

isPreconditionError(msg) ==
    \/ Includes(msg, "412")
    \/ IncludesLower(msg, "precondition")
    \/ IncludesLower(msg, "onlyifmatch")
    \/ IncludesLower(msg, "condition")

\* ------------------------------------------------------------ GET totals
\* a reducer that counts one person per record that attends
RECURSIVE Tally_OnePerRecord(_, _, _)
Tally_OnePerRecord(r, data, acc) ==
    IF data = <<>> THEN acc
    ELSE LET rec == Head(data)
             num == rec.numPersone
         IN  Tally_OnePerRecord(r, Tail(data),
                   IF rec.partecipa = <<"S", "ì">>
                   THEN [acc EXCEPT !.yesCount = @ + 1, !.personsYes = @ + 1]
                   ELSE IF rec.partecipa = <<"N", "o">>
                   THEN [acc EXCEPT !.noCount = @ + 1, !.personsNo = @ + num]
                   ELSE acc)

RECURSIVE Tally(_, _, _)
Tally(r, data, acc) ==
    IF data = <<>> THEN acc
    ELSE LET rec == Head(data)
             partecipa == IF r = 1 THEN rec.partecipa ELSE Trim(rec.partecipa)
             parsed == toInt(JNum(rec.numPersone))
             num == IF Falsy(parsed) THEN 0 ELSE parsed.n
         IN  Tally(r, Tail(data),
                   IF partecipa = Si
                   THEN [acc EXCEPT !.yesCount = @ + 1, !.personsYes = @ + num]
                   ELSE IF partecipa = No
                   THEN [acc EXCEPT !.noCount = @ + 1, !.personsNo = @ + num]
                   ELSE acc)

Totals(r, data) ==
    LET acc == Tally(r, data, [yesCount |-> 0, noCount |-> 0,
                               personsYes |-> 0, personsNo |-> 0])
    IN  [rsvp_yes |-> acc.yesCount, rsvp_no |-> acc.noCount,
         persons_yes |-> acc.personsYes, persons_no |-> acc.personsNo,
         rsvp_total |-> Len(data),
         persons_total |-> acc.personsYes + acc.personsNo]

\* insert e into a list sorted by createdAt descending, after its equals
RECURSIVE InsertDesc(_, _)
InsertDesc(sorted, e) ==
    IF sorted = <<>> THEN <<e>>
    ELSE IF Head(sorted).createdAt >= e.createdAt
         THEN <<Head(sorted)>> \o InsertDesc(Tail(sorted), e)
         ELSE <<e>> \o sorted

\* [...data].sort((a, b) => b.createdAt.localeCompare(a.createdAt)), stable
RECURSIVE SortDesc(_)
SortDesc(data) ==
    IF data = <<>> THEN <<>>
    ELSE InsertDesc(SortDesc(SubSeq(data, 1, Len(data) - 1)), data[Len(data)])

Items(r, data) == IF r = 3 THEN data ELSE SortDesc(data)

isAuthed(keyFromQuery, keyFromHeader, expected) ==
    expected # "" /\ (keyFromQuery = expected \/ keyFromHeader = expected)

\* GET requests: the key in the query, the key in the x-admin-key header,
\* and the ADMIN_KEY of the environment ("" when a key is not given or not set)
GetRequests == {<<"", "", "k1">>, <<"k1", "", "k1">>, <<"k2", "k1", "k1">>,
                <<"k2", "", "k1">>, <<"", "", "">>}

\* ------------------------------------------------------------------ state
VARIABLES
    rev,        \* the deployed revision of the handler
    store,      \* the blob under KEY
    down,       \* message of the error every store call throws now, <<>> if none
    pc,         \* per invocation: "idle", "read", "write", "sleep", "done"
    attempt,    \* per invocation: the loop counter of the append loop
    entry,      \* per invocation: the entry built from the body
    got,        \* per invocation: current and etag of the attempt's read
    timer,      \* per invocation: milliseconds of the sleep in progress
    resp,       \* per invocation: the response returned
    nextId,     \* source of crypto.randomUUID(): ids are never reused
    clock,      \* source of new Date(): later requests get later times
    outcome,    \* per entry id: "pending", "Applied", "Busy" or "Error"
    commitLog,  \* ids of the entries of the writes the store applied, in order
    getResp,    \* the response of the last GET
    getSeen,    \* the etag of the blob when the last GET read it, -1 if none
    lastOther   \* the last request of another method, and its status

vars == <<rev, store, down, pc, attempt, entry, got, timer, resp,
          nextId, clock, outcome, commitLog, getResp, getSeen, lastOther>>

procVars == <<pc, attempt, entry, got, timer, resp>>
getVars == <<getResp, getSeen>>
envVars == <<down>>

NoGot == [current |-> <<>>, etag |-> 0]
NoOther == [method |-> "", id |-> 0, status |-> 0]

Init ==
    /\ rev \in Revs
    /\ store = NoBlob
    /\ down = <<>>
    /\ pc = [p \in Procs |-> "idle"]
    /\ attempt = [p \in Procs |-> 0]
    /\ entry = [p \in Procs |-> NoEntry]
    /\ got = [p \in Procs |-> NoGot]
    /\ timer = [p \in Procs |-> 0]
    /\ resp = [p \in Procs |-> NoReply]
    /\ nextId = 1
    /\ clock = 1
    /\ outcome = <<>>
    /\ commitLog = <<>>
    /\ getResp = NoReply
    /\ getSeen = -1
    /\ lastOther = NoOther

\* the handler returns (or throws): the response, and the fate of the entry
Finish(p, reply, fate) ==
    /\ pc' = [pc EXCEPT ![p] = "done"]
    /\ resp' = [resp EXCEPT ![p] = reply]
    /\ outcome' = IF entry[p] = NoEntry THEN outcome
                  ELSE [outcome EXCEPT ![entry[p].id] = fate]
    /\ attempt' = [attempt EXCEPT ![p] = 0]
    /\ entry' = [entry EXCEPT ![p] = NoEntry]
    /\ got' = [got EXCEPT ![p] = NoGot]
    /\ timer' = [timer EXCEPT ![p] = 0]

Applied(p) == Finish(p, Reply(200, TRUE, entry[p].id, ""), "Applied")
Busy(p) == Finish(p, Reply(409, FALSE, 0, "Busy, retry"), "Busy")
\* an exception that leaves the handler: the platform answers 500
Thrown(p) == Finish(p, Reply(500, FALSE, 0, "thrown"), "Error")

\* ------------------------------------------------------------ environment
\* the store becomes unreachable: its calls throw msg until it recovers
Outage(msg) ==
    /\ down = <<>>
    /\ down' = msg
    /\ UNCHANGED <<rev, store, procVars, nextId, clock, outcome, commitLog, getVars, lastOther>>

Recover ==
    /\ down # <<>>
    /\ down' = <<>>
    /\ UNCHANGED <<rev, store, procVars, nextId, clock, outcome, commitLog,
                   getVars, lastOther>>

\* ----------------------------------------------------------------- POST
\* POST with a body the validation turns down: 400 before getStore is used
PostReject(p, b) ==
    /\ pc[p] \in {"idle", "done"}
    /\ ValidationError(rev, b) # ""
    /\ pc' = [pc EXCEPT ![p] = "done"]
    /\ resp' = [resp EXCEPT ![p] = Reply(400, FALSE, 0, ValidationError(rev, b))]
    /\ UNCHANGED <<rev, store, envVars, attempt, entry, got, timer, nextId, clock,
                   outcome, commitLog, getVars, lastOther>>

\* POST with a body that passes: the entry is built and the loop entered
PostAccept(p, b, maxReq) ==
    /\ pc[p] \in {"idle", "done"}
    /\ ValidationError(rev, b) = ""
    /\ nextId <= maxReq
    /\ clock' = clock + 1
    /\ entry' = [entry EXCEPT ![p] = MakeEntry(rev, b, nextId, clock)]
    /\ nextId' = nextId + 1
    /\ outcome' = Append(outcome, "pending")
    /\ attempt' = [attempt EXCEPT ![p] = 1]
    /\ pc' = [pc EXCEPT ![p] = "read"]
    /\ resp' = [resp EXCEPT ![p] = NoReply]
    /\ UNCHANGED <<rev, store, envVars, got, timer, commitLog, getVars, lastOther>>

\* const got = await store.getWithMetadata(KEY, ...)
Read(p) ==
    /\ pc[p] = "read"
    /\ down = <<>>
    /\ got' = [got EXCEPT ![p] = getWithMetadata(store)]
    /\ pc' = [pc EXCEPT ![p] = "write"]
    /\ UNCHANGED <<rev, store, envVars, attempt, entry, timer, resp,
                   nextId, clock, outcome, commitLog, getVars, lastOther>>

\* The etag of the result of getWithMetadata is optional: a read that finds
\* the blob and returns its list without an etag, the case for which
\* revision 2 also looks at got.metadata.etag and has its fallback.
ReadNoEtag(p) ==
    /\ pc[p] = "read"
    /\ down = <<>>
    /\ store.exists
    /\ got' = [got EXCEPT ![p] = [current |-> store.data, etag |-> 0]]
    /\ pc' = [pc EXCEPT ![p] = "write"]
    /\ UNCHANGED <<rev, store, envVars, attempt, entry, timer, resp,
                   nextId, clock, outcome, commitLog, getVars, lastOther>>

\* What the loop of revision r does with an error thrown by a store call:
\* revisions 1 and 3 have no try, revision 2 catches and retries whatever
\* the error is, until the attempts are used up.
OnThrow(p, msg) ==
    /\ IF rev # 2
       THEN Thrown(p)
       ELSE IF isPreconditionError(msg) /\ attempt[p] < MAX_RETRIES(rev)
       THEN /\ pc' = [pc EXCEPT ![p] = "sleep"]
            /\ timer' = [timer EXCEPT ![p] = SleepBase * attempt[p]]
            /\ UNCHANGED <<attempt, entry, got, resp, outcome>>
       ELSE IF attempt[p] < MAX_RETRIES(rev)
       THEN /\ pc' = [pc EXCEPT ![p] = "sleep"]
            /\ timer' = [timer EXCEPT ![p] = SleepBase * attempt[p]]
            /\ UNCHANGED <<attempt, entry, got, resp, outcome>>
       ELSE Busy(p)

\* store.getWithMetadata throws
ReadFail(p) ==
    /\ pc[p] = "read"
    /\ down # <<>>
    /\ OnThrow(p, down)
    /\ UNCHANGED <<rev, store, envVars, nextId, clock, commitLog, getVars, lastOther>>

\* a loop that never sees modified: it takes every write for refused
OnWritten_IgnoresResult(p, modified) ==
    IF rev = 2 THEN Applied(p)
    ELSE IF rev = 3
    THEN /\ pc' = [pc EXCEPT ![p] = "sleep"]
         /\ timer' = [timer EXCEPT ![p] = SleepBase * attempt[p]]
         /\ UNCHANGED <<attempt, entry, got, resp, outcome>>
    ELSE IF attempt[p] + 1 <= MAX_RETRIES(rev)
    THEN /\ pc' = [pc EXCEPT ![p] = "read"]
         /\ attempt' = [attempt EXCEPT ![p] = @ + 1]
         /\ got' = [got EXCEPT ![p] = NoGot]
         /\ UNCHANGED <<entry, timer, resp, outcome>>
    ELSE Busy(p)

\* a loop that, after a refused write, writes again what it has read before
OnWritten_KeepsRead(p, modified) ==
    IF rev = 2 \/ modified THEN Applied(p)
    ELSE IF attempt[p] + 1 <= MAX_RETRIES(rev)
    THEN /\ pc' = [pc EXCEPT ![p] = "write"]
         /\ attempt' = [attempt EXCEPT ![p] = @ + 1]
         /\ UNCHANGED <<entry, got, timer, resp, outcome>>
    ELSE Busy(p)

\* What the loop of revision r does when setJSON returns: modified says
\* whether the store applied the write.
OnWritten(p, modified) ==
    IF rev = 2 \/ modified THEN Applied(p)
    ELSE IF rev = 3
    THEN /\ pc' = [pc EXCEPT ![p] = "sleep"]
         /\ timer' = [timer EXCEPT ![p] = SleepBase * attempt[p]]
         /\ UNCHANGED <<attempt, entry, got, resp, outcome>>
    ELSE IF attempt[p] + 1 <= MAX_RETRIES(rev)
    THEN /\ pc' = [pc EXCEPT ![p] = "read"]
         /\ attempt' = [attempt EXCEPT ![p] = @ + 1]
         /\ got' = [got EXCEPT ![p] = NoGot]
         /\ UNCHANGED <<entry, timer, resp, outcome>>
    ELSE Busy(p)

\* const res = await store.setJSON(KEY, next, options), and what follows it
Write(p) ==
    /\ pc[p] = "write"
    /\ down = <<>>
    /\ LET opt == WriteOptions(rev, got[p].etag, got[p].current)
           next == NextValue(got[p].current, entry[p])
       IN  /\ store' = setJSON(store, next, opt, got[p].etag)
           /\ commitLog' = IF Applies(store, opt, got[p].etag)
                           THEN Append(commitLog, entry[p].id) ELSE commitLog
           /\ OnWritten(p, Applies(store, opt, got[p].etag))
    /\ UNCHANGED <<rev, envVars, nextId, clock, getVars, lastOther>>

\* store.setJSON throws: the store is left as it was
WriteFail(p) ==
    /\ pc[p] = "write"
    /\ down # <<>>
    /\ OnThrow(p, down)
    /\ UNCHANGED <<rev, store, envVars, nextId, clock, commitLog, getVars, lastOther>>

\* a loop whose for statement has no bound
Wake_Unbounded(p) ==
    /\ pc[p] = "sleep"
    /\ pc' = [pc EXCEPT ![p] = "read"]
    /\ attempt' = [attempt EXCEPT ![p] = @ + 1]
    /\ got' = [got EXCEPT ![p] = NoGot]
    /\ timer' = [timer EXCEPT ![p] = 0]
    /\ UNCHANGED <<entry, resp, outcome>>
    /\ UNCHANGED <<rev, store, envVars, nextId, clock,
                   commitLog, getVars, lastOther>>

\* await sleep(120 * attempt) is over: the loop goes on with attempt++
Wake(p) ==
    /\ pc[p] = "sleep"
    /\ IF attempt[p] + 1 <= MAX_RETRIES(rev)
       THEN /\ pc' = [pc EXCEPT ![p] = "read"]
            /\ attempt' = [attempt EXCEPT ![p] = @ + 1]
            /\ got' = [got EXCEPT ![p] = NoGot]
            /\ timer' = [timer EXCEPT ![p] = 0]
            /\ UNCHANGED <<entry, resp, outcome>>
       ELSE Busy(p)
    /\ UNCHANGED <<rev, store, envVars, nextId, clock,
                   commitLog, getVars, lastOther>>

\* ------------------------------------------------------------------ GET
GetReply(r, data) ==
    [status |-> 200, ok |-> TRUE, id |-> 0, error |-> "",
     totals |-> Totals(r, data), items |-> Items(r, data)]

\* GET without the admin key: 401, the store is not read
GetUnauthorized(keyFromQuery, keyFromHeader, expected) ==
    /\ ~isAuthed(keyFromQuery, keyFromHeader, expected)
    /\ getResp' = Reply(401, FALSE, 0, "Unauthorized")
    /\ getSeen' = -1
    /\ UNCHANGED <<rev, store, envVars, procVars, nextId, clock, outcome, commitLog,
                   lastOther>>

\* a GET that saves the list it has read back to the store
Get_Saving(keyFromQuery, keyFromHeader, expected) ==
    /\ isAuthed(keyFromQuery, keyFromHeader, expected)
    /\ down = <<>>
    /\ getResp' = GetReply(rev, IF store.exists THEN store.data ELSE <<>>)
    /\ getSeen' = store.etag
    /\ store' = [exists |-> TRUE, data |-> store.data, etag |-> store.etag + 1]
    /\ UNCHANGED <<rev, envVars, procVars, nextId, clock, outcome, commitLog,
                   lastOther>>

\* GET with the admin key: (await store.get(KEY, {type: "json"})) || []
Get(keyFromQuery, keyFromHeader, expected) ==
    /\ isAuthed(keyFromQuery, keyFromHeader, expected)
    /\ down = <<>>
    /\ getResp' = GetReply(rev, IF store.exists THEN store.data ELSE <<>>)
    /\ getSeen' = store.etag
    /\ UNCHANGED <<rev, store, envVars, procVars, nextId, clock, outcome, commitLog,
                   lastOther>>

\* store.get throws: no try in any revision
GetFail(keyFromQuery, keyFromHeader, expected) ==
    /\ isAuthed(keyFromQuery, keyFromHeader, expected)
    /\ down # <<>>
    /\ getResp' = Reply(500, FALSE, 0, "thrown")
    /\ getSeen' = -1
    /\ UNCHANGED <<rev, store, envVars, procVars, nextId, clock, outcome, commitLog,
                   lastOther>>

\* -------------------------------------------------------- other methods
\* The methods a client can send besides GET and POST; a request names the
\* id of a record (as a client asking for its removal would).
OtherMethods == {"DELETE", "PUT"}

\* if (req.method === "OPTIONS"): 204, nothing is read or written
Options ==
    /\ lastOther' = [method |-> "OPTIONS", id |-> 0, status |-> 204]
    /\ UNCHANGED <<rev, store, envVars, procVars, nextId, clock, outcome, commitLog,
                   getVars>>

\* a handler that serves DELETE by removing the record of the id
MethodNotAllowed_Deleting(method, x) ==
    /\ lastOther' = [method |-> method, id |-> x,
                     status |-> IF method = "DELETE" THEN 200 ELSE 405]
    /\ store' = IF method = "DELETE" /\ store.exists
                THEN [store EXCEPT !.data = SelectSeq(store.data, LAMBDA e : e.id # x),
                                   !.etag = @ + 1]
                ELSE store
    /\ UNCHANGED <<rev, envVars, procVars, nextId, clock, outcome, commitLog,
                   getVars>>

\* the last statement of the handler: every method that is not OPTIONS, GET
\* or POST is answered 405 "Method not allowed"
MethodNotAllowed(method, x) ==
    /\ lastOther' = [method |-> method, id |-> x, status |-> 405]
    /\ UNCHANGED <<rev, store, envVars, procVars, nextId, clock, outcome, commitLog,
                   getVars>>

\* ---------------------------------------------------------- specifications
\* the steps of the POST requests of the invocations procs
Loop(procs, bodies, maxReq) ==
    \/ \E p \in procs, b \in bodies : PostReject(p, b)
    \/ \E p \in procs, b \in bodies : PostAccept(p, b, maxReq)
    \/ \E p \in procs : Read(p)
    \/ \E p \in procs : ReadFail(p)
    \/ \E p \in procs : Write(p)
    \/ \E p \in procs : WriteFail(p)
    \/ \E p \in procs : Wake(p)

Faults ==
    \/ \E msg \in StoreErrors : Outage(msg)
    \/ Recover

Post(procs, bodies, maxReq) == Loop(procs, bodies, maxReq) \/ Faults

Admin ==
    \/ \E r \in GetRequests : GetUnauthorized(r[1], r[2], r[3])
    \/ \E r \in GetRequests : Get(r[1], r[2], r[3])
    \/ \E r \in GetRequests : GetFail(r[1], r[2], r[3])

\* concurrency: POST requests alone, one storable body
Next == Post(Procs, BodiesCore, MaxRequests)
Spec == Init /\ [][Next]_vars

\* validation and reading: one invocation at a time, every body, GET requests
NextV == Post({1}, BodiesAll, MaxRequestsV) \/ Admin
SpecV == Init /\ [][NextV]_vars

\* Exhaustion.  Revisions 1 and 3 use up their attempts only through refused
\* writes, one rival request applied per attempt: MAX_RETRIES requests of
\* the rival and more, no store error.  Revision 2 never retries a refused
\* write and uses up its attempts only through store errors.
RequestBound(r) == IF r = 2 THEN MaxExtra + 1 ELSE MAX_RETRIES(r) + MaxExtra
BodiesDeep == {BodyYes2, BodyMaybe}

NextX == Loop(Procs, BodiesDeep, RequestBound(rev)) \/ (rev = 2 /\ Faults)
SpecX == Init /\ [][NextX]_vars

\* concurrency over a store whose reads may come without an etag
NextE == Post(Procs, BodiesCore, MaxRequests) \/ \E p \in Procs : ReadNoEtag(p)
SpecE == Init /\ [][NextE]_vars

\* routing: one invocation at a time, and requests of the other methods
Routing ==
    \/ Options
    \/ \E m \in OtherMethods, x \in 1..MaxRequestsV : MethodNotAllowed(m, x)

NextM == Post({1}, BodiesCore, MaxRequestsV) \/ Routing
SpecM == Init /\ [][NextM]_vars

\* ------------------------------------------------------------------ claims
Ids(data) == {data[i].id : i \in 1..Len(data)}
IdSeq(data) == [i \in 1..Len(data) |-> data[i].id]
Requests == 1..Len(outcome)

\* C1: no lost update.  Once every POST issued so far against the initially
\* empty store has returned Applied, the stored list holds exactly one record
\* per request, with exactly the ids of those requests.
NoLostUpdate ==
    (Requests # {} /\ \A i \in Requests : outcome[i] = "Applied")
        => (Len(store.data) = Len(outcome) /\ Ids(store.data) = Requests)

\* C2: Applied means committed.  A POST answers 200 with an id only if the
\* store applied a write whose list ended with the entry of that id.
AppliedMeansCommitted ==
    \A p \in Procs :
        resp[p].status = 200 => \E k \in 1..Len(commitLog) : commitLog[k] = resp[p].id

\* the write invocation p is about to issue will be refused by the store
WriteConflicts(p) ==
    /\ pc[p] = "write"
    /\ down = <<>>
    /\ ~Applies(store, WriteOptions(rev, got[p].etag, got[p].current), got[p].etag)

\* C3: exhaustion surfaces Busy.  A POST that ends on a write the store
\* refused answers 409 "Busy, retry", never 200: the caller is told that the
\* record was not stored.
ExhaustionSurfacesBusy ==
    [][\A p \in Procs :
          (WriteConflicts(p) /\ pc'[p] = "done") => resp'[p].status = 409]_vars

\* C4: a store error is fatal.  When a store call of a POST throws, the
\* request ends there with the error (500): no sleep, no further read or write.
FatalNotRetried ==
    [][\A p \in Procs :
          (down # <<>> /\ pc[p] \in {"read", "write"} /\ pc'[p] # pc[p])
              => (pc'[p] = "done" /\ resp'[p].status = 500)]_vars

AttendanceOk(rec) ==
    /\ rec.partecipa = Si => (rec.numPersone >= 1 /\ rec.nominativi # <<>>)
    /\ rec.partecipa = No => (rec.numPersone = 0 /\ rec.nominativi = <<>>)

\* C5: attendance invariant.  Every record of the stored list that attends
\* has numPersone >= 1 and nominativi, and every record that does not attend
\* has numPersone = 0 and no nominativi.
AttendanceInvariant ==
    \A i \in 1..Len(store.data) : AttendanceOk(store.data[i])

\* C6: ids are unique.  No two records of the stored list have the same id,
\* and the record of every request that returned Applied is in the list
\* exactly once.
UniqueIds ==
    /\ \A i, j \in 1..Len(store.data) :
          store.data[i].id = store.data[j].id => i = j
    /\ \A r \in Requests :
          outcome[r] = "Applied"
              => Cardinality({i \in 1..Len(store.data) : store.data[i].id = r}) = 1

ReadsDoNotMutate ==
    [][/\ getVars' # getVars => (store' = store /\ commitLog' = commitLog)
       /\ (getSeen # -1 /\ getSeen' = getSeen) => getResp' = getResp]_vars

\* a GET has returned a list of two records or more and the blob has not
\* been written since
ReadWitness ==
    /\ getResp.status = 200
    /\ getSeen = store.etag
    /\ Len(getResp.items) >= 2
    /\ Ids(getResp.items) = Ids(store.data)

\* the reference reducer: the groups as sets of positions
RECURSIVE SumPersons(_, _)
SumPersons(data, positions) ==
    IF positions = {} THEN 0
    ELSE LET i == CHOOSE k \in positions : TRUE
         IN  data[i].numPersone + SumPersons(data, positions \ {i})

RefTotals(data) ==
    LET yes == {i \in 1..Len(data) : data[i].partecipa = Si}
        no == {i \in 1..Len(data) : data[i].partecipa = No}
    IN  [rsvp_yes |-> Cardinality(yes), rsvp_no |-> Cardinality(no),
         persons_yes |-> SumPersons(data, yes), persons_no |-> SumPersons(data, no),
         rsvp_total |-> Len(data),
         persons_total |-> SumPersons(data, yes) + SumPersons(data, no)]

ExampleCollection == <<[partecipa |-> Si, numPersone |-> 2],
                       [partecipa |-> Si, numPersone |-> 3],
                       [partecipa |-> No, numPersone |-> 0]>>
ExampleTotals == [rsvp_yes |-> 2, persons_yes |-> 5, rsvp_no |-> 1, persons_no |-> 0,
                  rsvp_total |-> 3, persons_total |-> 5]

\* C9: aggregate correctness.  The totals of GET are those of the reference
\* reducer, on every stored list and in every GET response; the list
\* [{Sì,2},{Sì,3},{No,0}] gives 2, 5, 1, 0, 3, 5.
AggregateCorrect ==
    /\ Totals(rev, ExampleCollection) = ExampleTotals
    /\ Totals(rev, store.data) = RefTotals(store.data)
    /\ getResp.status = 200 => getResp.totals = RefTotals(getResp.items)

\* a GET has returned the totals of the example, computed from a stored list
AggregateWitness ==
    /\ getResp.status = 200
    /\ getResp.totals = ExampleTotals
    /\ getResp.totals = Totals(rev, store.data)

\* what the validation is to let through
ContentValid(e) ==
    /\ e.nome # <<>> /\ e.cognome # <<>> /\ e.contatto # <<>>
    /\ e.partecipa \in {Si, No}
    /\ e.partecipa = Si => (e.numPersone >= 1 /\ e.nominativi # <<>>)

\* C10: invalid content is rejected before the store is used.  No request
\* reaches the append loop with a required field missing, with partecipa
\* other than Sì or No, or attending without numPersone >= 1 and nominativi.
InvalidRejected ==
    \A p \in Procs : entry[p] # NoEntry => ContentValid(entry[p])

ConditionalWrites ==
    \A p \in Procs :
        pc[p] = "write" =>
            LET opt == WriteOptions(rev, got[p].etag, got[p].current)
            IN  \/ opt = "onlyIfMatch" /\ got[p].etag # 0
                \/ opt = "onlyIfNew" /\ got[p].etag = 0 /\ got[p].current = <<>>
\* C13: every attempt starts with a fresh read.  An invocation is about to
\* write only with the list and the etag that a read of the store returned
\* in the same attempt, and it holds neither between attempts nor between
\* requests.
FreshRead ==
    /\ [][\A p \in Procs :
            pc'[p] = "write" =>
                \/ pc[p] = "write" /\ got'[p] = got[p] /\ attempt'[p] = attempt[p]
                \/ /\ pc[p] = "read"
                   /\ got'[p] = getWithMetadata(store)
                   /\ attempt'[p] = attempt[p]]_vars
    /\ [](\A p \in Procs : pc[p] \in {"idle", "read", "done"} => got[p] = NoGot)

\* an invocation in its second attempt or later is about to write what it
\* has just read: a list that holds the record of a rival
FreshReadWitness ==
    \E p \in Procs :
        /\ pc[p] = "write"
        /\ attempt[p] >= 2
        /\ got[p] = getWithMetadata(store)
        /\ Len(got[p].current) >= 1
        /\ entry[p].id \notin Ids(got[p].current)
\* invocation p is inside the append loop
InLoop(p) == pc[p] \in {"read", "write", "sleep"}
\* the order of the steps of one attempt
Phase(at) == IF at = "read" THEN 1 ELSE IF at = "write" THEN 2
             ELSE IF at = "sleep" THEN 3 ELSE 0
\* the next step of invocation p
LoopStep(p) == Read(p) \/ ReadFail(p) \/ Write(p) \/ WriteFail(p) \/ Wake(p)

\* C14: bounded termination.  A request makes attempts 1, 2, ... up to
\* MAX_RETRIES at most; each attempt is one read, then at most one write, then
\* at most one sleep, so no request makes more than MAX_RETRIES reads or
\* writes; an invocation in the loop is never blocked, whatever the others
\* do; a request ends with one of 200 (Applied), 409 (Busy) and 500 (Error),
\* and its outcome never changes afterwards.
BoundedTermination ==
    /\ [](\A p \in Procs :
            /\ attempt[p] <= MAX_RETRIES(rev)
            /\ InLoop(p) => (attempt[p] >= 1 /\ ENABLED LoopStep(p)))
    /\ [][\A p \in Procs :
            (InLoop(p) /\ <<pc[p], attempt[p]>>' # <<pc[p], attempt[p]>>) =>
                \/ /\ pc'[p] = "done"
                   /\ resp'[p].status \in {200, 409, 500}
                   /\ outcome'[entry[p].id] \in {"Applied", "Busy", "Error"}
                \/ attempt'[p] = attempt[p] /\ Phase(pc'[p]) > Phase(pc[p])
                \/ /\ attempt'[p] = attempt[p] + 1
                   /\ pc[p] \in {"write", "sleep"}
                   /\ pc'[p] = "read"]_vars
    /\ [][\A i \in Requests : outcome[i] # "pending" => outcome'[i] = outcome[i]]_vars

\* a request has ended Busy after MAX_RETRIES writes refused for as many
\* writes of its rival
ExhaustedWitness ==
    \E p \in Procs : resp[p].status = 409 /\ Len(commitLog) >= MAX_RETRIES(rev)
\* invocation p is about to issue a create-if-absent write that the store
\* will refuse: it has read "absent" and a rival has created the blob since
LosesFirstWrite(p) ==
    /\ WriteConflicts(p)
    /\ got[p] = getWithMetadata(NoBlob)
    /\ WriteOptions(rev, got[p].etag, got[p].current) = "onlyIfNew"

\* C15: first-write race.  A read of the absent blob gives the empty list
\* and no etag, and the write that follows is onlyIfNew; of two requests
\* that have both read "absent" the store applies one write only, and the
\* request whose write is refused goes on to a new read (it is not answered
\* there), so that what it writes later is the list with the record of the
\* first followed by its own.
FirstWriteRace ==
    /\ [](\A p \in Procs :
            (pc[p] = "write" /\ got[p].etag = 0)
                => (got[p].current = <<>>
                    /\ WriteOptions(rev, got[p].etag, got[p].current) = "onlyIfNew"))
    /\ [][\A p \in Procs :
            (LosesFirstWrite(p) /\ pc'[p] # "write")
                => (store' = store /\ pc'[p] \in {"read", "sleep"})]_vars
    /\ [][\A p \in Procs :
            (pc[p] = "write" /\ pc'[p] # "write" /\ attempt[p] >= 2 /\ store' # store)
                => store'.data = Append(store.data, entry[p])]_vars

\* C16: linear backoff.  The loop goes from attempt k to attempt k+1 only
\* out of a sleep of 120 * k milliseconds.
LinearBackoff ==
    [][\A p \in Procs :
          (attempt[p] >= 1 /\ attempt'[p] = attempt[p] + 1)
              => (pc[p] = "sleep" /\ timer[p] = SleepBase * attempt[p])]_vars

\* C17: no backoff on exhaustion.  No sleep follows the failure of the last
\* attempt: an invocation sleeps only when it has an attempt left.
NoBackoffOnExhaustion ==
    \A p \in Procs : pc[p] = "sleep" => attempt[p] < MAX_RETRIES(rev)
BusyMeansNotStored ==
    \A i \in Requests :
        outcome[i] = "Busy" =>
            /\ i \notin Ids(store.data)
            /\ \A k \in 1..Len(commitLog) : commitLog[k] # i

\* a request was answered Busy after MAX_RETRIES writes of its rival, and a
\* request made after it has been stored
BusyWitness ==
    \E i, j \in Requests :
        /\ outcome[i] = "Busy"
        /\ Len(commitLog) >= MAX_RETRIES(rev)
        /\ j > i
        /\ j \in Ids(store.data)
        /\ i \notin Ids(store.data)

\* C20: totals add up.  On every list that POST requests can store, the
\* totals of GET have rsvp_total = rsvp_yes + rsvp_no and persons_no = 0.
TotalsAddUp ==
    LET t == Totals(rev, store.data)
    IN  /\ t.rsvp_total = t.rsvp_yes + t.rsvp_no
        /\ t.persons_no = 0
====
